---- MODULE Spec2Model ----
(***************************************************************************)
(* Model of src/l0_app.py (the active module, lines 405-635): the Pandonia *)
(* L0 viewer.  process_txt_file parses an instrument log into a DataFrame; *)
(* load_and_visualize is the Dash callback that fetches a file, parses it  *)
(* into the global uploaded_df and builds the dropdown options and chart.  *)
(*                                                                         *)
(* Text is a sequence of atoms.  An atom is one character of the classes   *)
(* the code distinguishes (newline, blank, tab, '-', '#') or an indivisible *)
(* run of other non-blank characters such as "1.0" or "ABC".  A token (the *)
(* result of str.split()) is a non-empty sequence of non-blank atoms.      *)
(***************************************************************************)
EXTENDS Integers, Sequences, FiniteSets, TLC

\* ------------------------------------------------------------------ bounds
MaxLines == 2
MaxBandsIn == 2
MaxRecords == 3

\* ------------------------------------------------------- program constants
MarkerLen == 87
NumBase == 24
BandWidth == 200
PixelStop == 2001

\* ------------------------------------------------------------ Python values
None == <<>>

NaN == [nan |-> TRUE, n |-> 0, d |-> 1]

NaT == [nan |-> TRUE, n |-> 0, d |-> 1]

RECURSIVE Gcd(_, _)
Gcd(a, b) == IF b = 0 THEN a ELSE Gcd(b, a % b)

Abs(x) == IF x < 0 THEN -x ELSE x

\* a float, kept exact as a reduced fraction n/d with d > 0
Num(n, d) ==
    LET g == Gcd(Abs(n), d)
    IN  [nan |-> FALSE, n |-> n \div g, d |-> d \div g]

Plus(a, b) == Num(a.n * b.d + b.n * a.d, a.d * b.d)

Front(s) == SubSeq(s, 1, Len(s) - 1)

Last(s) == s[Len(s)]

IsSpace(c) == c \in {" ", "\t", "\n"}

\* str.split("\n") on the characters lo..hi of t: keeps empty pieces
RECURSIVE SplitNL(_, _, _)
SplitNL(t, lo, hi) ==
    IF lo > hi THEN << <<>> >>
    ELSE IF lo = hi
         THEN IF t[lo] = "\n" THEN << <<>>, <<>> >> ELSE << <<t[lo]>> >>
         ELSE LET m == (lo + hi) \div 2
                  L == SplitNL(t, lo, m)
                  R == SplitNL(t, m + 1, hi)
              IN  Front(L) \o << Last(L) \o Head(R) >> \o Tail(R)

split_newline(s) == SplitNL(s, 1, Len(s))

\* str.split() on the characters lo..hi of a line: runs of non-blank atoms
RECURSIVE SplitWS(_, _, _)
SplitWS(l, lo, hi) ==
    IF lo > hi THEN <<>>
    ELSE IF lo = hi
         THEN IF IsSpace(l[lo]) THEN <<>> ELSE << <<l[lo]>> >>
         ELSE LET m == (lo + hi) \div 2
                  L == SplitWS(l, lo, m)
                  R == SplitWS(l, m + 1, hi)
              IN  IF ~IsSpace(l[m]) /\ ~IsSpace(l[m + 1])
                  THEN Front(L) \o << Last(L) \o Head(R) >> \o Tail(R)
                  ELSE L \o R

split(line) == SplitWS(line, 1, Len(line))

\* line.strip() is a non-empty string
strip_nonempty(line) == \E i \in 1..Len(line) : ~IsSpace(line[i])

\* line.startswith("-" * MarkerLen)
startswith_marker(line) ==
    /\ Len(line) >= MarkerLen
    /\ \A i \in 1..MarkerLen : line[i] = "-"

\* line.startswith("#")
startswith_hash(line) == Len(line) >= 1 /\ line[1] = "#"

\* ------------------------------------------------------ pandas conversions
\* pd.to_numeric(errors="coerce") on one cell: the literals the log format
\* uses, as exact fractions; anything else (None included) is NaN
NumericLiterals ==
    [lit \in {"0", "1", "1.0", "3.0", "5.0", "10.0", "20.1", "20.2", "20.3",
              "20.4", "45.0", "50", "90.0", "100", "900"} |->
        CASE lit = "0" -> Num(0, 1)
          [] lit = "1" -> Num(1, 1)
          [] lit = "1.0" -> Num(1, 1)
          [] lit = "3.0" -> Num(3, 1)
          [] lit = "5.0" -> Num(5, 1)
          [] lit = "10.0" -> Num(10, 1)
          [] lit = "20.1" -> Num(201, 10)
          [] lit = "20.2" -> Num(202, 10)
          [] lit = "20.3" -> Num(203, 10)
          [] lit = "20.4" -> Num(204, 10)
          [] lit = "45.0" -> Num(45, 1)
          [] lit = "50" -> Num(50, 1)
          [] lit = "90.0" -> Num(90, 1)
          [] lit = "100" -> Num(100, 1)
          [] lit = "900" -> Num(900, 1)]

to_numeric(cell) ==
    IF Len(cell) = 1 /\ cell[1] \in DOMAIN NumericLiterals
    THEN NumericLiterals[cell[1]]
    ELSE NaN

\* pd.to_datetime(errors="coerce") on one cell: seconds since 2021-01-01
DatetimeLiterals ==
    [lit \in {"2021-01-01T00:00:00", "2021-01-01T00:01:00",
              "2021-01-01T00:02:00"} |->
        CASE lit = "2021-01-01T00:00:00" -> Num(0, 1)
          [] lit = "2021-01-01T00:01:00" -> Num(60, 1)
          [] lit = "2021-01-01T00:02:00" -> Num(120, 1)]

to_datetime(cell) ==
    IF Len(cell) = 1 /\ cell[1] \in DOMAIN DatetimeLiterals
    THEN DatetimeLiterals[cell[1]]
    ELSE NaT

\* --------------------------------------------------------- process_txt_file
\* the names of lines 479-486; the degree sign of the four temperature
\* columns is left out
base_columns ==
    << "Routine Code", "Timestamp", "Routine Count", "Repetition Count",
       "Duration", "Integration Time [ms]", "Number of Cycles",
       "Saturation Index", "Filterwheel 1", "Filterwheel 2",
       "Zenith Angle [deg]", "Zenith Mode", "Azimuth Angle [deg]",
       "Azimuth Mode", "Processing Index", "Target Distance [m]",
       "Electronics Temp [C]", "Control Temp [C]", "Aux Temp [C]",
       "Head Sensor Temp [C]", "Head Sensor Humidity [%]",
       "Head Sensor Pressure [hPa]", "Scale Factor",
       "Uncertainty Indicator" >>

\* NumBands with the stop of the range taken as inclusive
NumBandsInclusive == (PixelStop - 1) \div BandWidth + 1

\* range(1, 2001, 200) has this many elements
NumBands == (PixelStop - 1 + BandWidth - 1) \div BandWidth

pixel_columns ==
    [k \in 1..NumBands |->
        "Pixel " \o ToString(1 + (k - 1) * BandWidth) \o "-"
                 \o ToString(1 + (k - 1) * BandWidth + BandWidth - 1)]

\* pd.DataFrame(): no columns, no rows
EmptyDataFrame == [columns |-> <<>>, rows |-> <<>>]

\* df.empty
df_empty(df) == Len(df.columns) = 0 \/ Len(df.rows) = 0

\* the loop of lines 465-468: 0-based index of the first line of the body
RECURSIVE ScanMarker(_, _)
ScanMarker(lines, i) ==
    IF i > Len(lines) THEN 0
    ELSE IF startswith_marker(lines[i]) THEN i
         ELSE ScanMarker(lines, i + 1)

find_data_start(lines) == ScanMarker(lines, 1)

\* the filter of the comprehension of line 472
keeps_line(line) == strip_nonempty(line) /\ ~startswith_hash(line)

\* lines[data_start:] filtered and tokenized, in order
RECURSIVE Tokenize(_, _)
Tokenize(lines, i) ==
    IF i > Len(lines) THEN <<>>
    ELSE IF keeps_line(lines[i])
         THEN << split(lines[i]) >> \o Tokenize(lines, i + 1)
         ELSE Tokenize(lines, i + 1)

extract_data(lines, data_start) == Tokenize(lines, data_start + 1)

\* df.shape[1] of pd.DataFrame(data): the longest row
RECURSIVE MaxLen(_, _)
MaxLen(data, i) ==
    IF i > Len(data) THEN 0
    ELSE LET rest == MaxLen(data, i + 1)
         IN  IF Len(data[i]) > rest THEN Len(data[i]) ELSE rest

frame_width(data) == MaxLen(data, 1)

\* the cell of a row at 0-based column j < width: short rows are padded
raw_cell(row, j) == IF j < Len(row) THEN row[j + 1] ELSE None

\* sum and count of the non-NaN values vals[lo..hi]
RECURSIVE SumCount(_, _, _)
SumCount(vals, lo, hi) ==
    IF lo > hi THEN [s |-> Num(0, 1), c |-> 0]
    ELSE IF lo = hi
         THEN IF vals[lo].nan THEN [s |-> Num(0, 1), c |-> 0]
                              ELSE [s |-> vals[lo], c |-> 1]
         ELSE LET m == (lo + hi) \div 2
                  L == SumCount(vals, lo, m)
                  R == SumCount(vals, m + 1, hi)
              IN  [s |-> Plus(L.s, R.s), c |-> L.c + R.c]

\* mean_skipna with the unparseable cells counted as zero (fillna(0))
mean_with_zeros(vals) ==
    LET sc == SumCount(vals, 1, Len(vals))
    IN  IF Len(vals) = 0 THEN NaN ELSE Num(sc.s.n, sc.s.d * Len(vals))

\* Series.mean() with skipna: NaN when nothing is left
mean_skipna(vals) ==
    LET sc == SumCount(vals, 1, Len(vals))
    IN  IF sc.c = 0 THEN NaN ELSE Num(sc.s.n, sc.s.d * sc.c)

\* df.iloc[:, start:end] for one row, while the frame holds the width raw
\* columns followed by the aggregates appended so far (line 508 appends one
\* column per iteration, and iloc counts them)
iloc_slice(row, width, done, start, end) ==
    LET ncols == width + Len(done)
        stop == IF end < ncols THEN end ELSE ncols
    IN  [k \in 1..(IF stop > start THEN stop - start ELSE 0) |->
            LET p == start + k - 1
            IN  IF p < width THEN to_numeric(raw_cell(row, p))
                             ELSE done[p - width + 1]]

\* the loop of lines 505-508 for one row: the first k band aggregates
RECURSIVE pixel_aggregates(_, _, _)
pixel_aggregates(row, width, k) ==
    IF k = 0 THEN <<>>
    ELSE LET done == pixel_aggregates(row, width, k - 1)
             start == NumBase + (k - 1) * BandWidth
             end == start + BandWidth
         IN  Append(done, mean_skipna(iloc_slice(row, width, done, start, end)))

\* one row of the returned frame (lines 498-514)
typed_row(row, width) ==
    LET aggs == pixel_aggregates(row, width, NumBands)
    IN  [c \in {base_columns[j] : j \in 1..NumBase}
               \cup {pixel_columns[k] : k \in 1..NumBands} |->
            IF c = base_columns[1] THEN raw_cell(row, 0)
            ELSE IF c = base_columns[2] THEN to_datetime(raw_cell(row, 1))
            ELSE IF \E j \in 3..NumBase : base_columns[j] = c
                 THEN to_numeric(raw_cell(row,
                          (CHOOSE j \in 3..NumBase : base_columns[j] = c) - 1))
                 ELSE aggs[CHOOSE k \in 1..NumBands : pixel_columns[k] = c]]

\* build_frame with errors="raise": one unparseable base cell fails the load
build_frame_raising(data) ==
    LET width == frame_width(data)
    IN  IF \/ Len(data) = 0
           \/ width < NumBase
           \/ \E r \in 1..Len(data) :
                 \/ to_datetime(raw_cell(data[r], 1)).nan
                 \/ \E j \in 2..(NumBase - 1) : to_numeric(raw_cell(data[r], j)).nan
        THEN EmptyDataFrame
        ELSE [columns |-> base_columns \o pixel_columns,
              rows |-> [r \in 1..Len(data) |-> typed_row(data[r], width)]]

\* lines 494-516 on the token lists; the assignment of line 498 raises when
\* the frame is narrower than the base columns
build_frame(data) ==
    LET width == frame_width(data)
    IN  IF Len(data) = 0 \/ width < NumBase
        THEN EmptyDataFrame
        ELSE [columns |-> base_columns \o pixel_columns,
              rows |-> [r \in 1..Len(data) |-> typed_row(data[r], width)]]

\* process_txt_file: a bytes argument makes split("\n") raise, and every
\* exception ends in the handler of lines 518-520
process_txt_file(file_content) ==
    IF file_content.type # "str"
    THEN EmptyDataFrame
    ELSE LET lines == split_newline(file_content.chars)
         IN  build_frame(extract_data(lines, find_data_start(lines)))

\* ------------------------------------------------------------------ inputs
Dashes(n) == [i \in 1..n |-> "-"]

\* single-atom tokens separated by one blank
JoinBlank(tokens) ==
    [k \in 1..(IF Len(tokens) = 0 THEN 0 ELSE 2 * Len(tokens) - 1) |->
        IF k % 2 = 1 THEN tokens[(k + 1) \div 2] ELSE " "]

RECURSIVE JoinNL(_)
JoinNL(lines) ==
    IF Len(lines) = 0 THEN <<>>
    ELSE IF Len(lines) = 1 THEN lines[1]
         ELSE lines[1] \o <<"\n">> \o JoinNL(Tail(lines))

GoodMeta ==
    << "1", "1", "5.0", "100", "1", "0", "1", "1", "45.0", "0", "90.0", "0",
       "1", "10.0", "20.1", "20.2", "20.3", "20.4", "50", "900", "1.0", "0" >>

PixelToken(pat, i) ==
    CASE pat = "steps" ->
             IF ((i - 1) \div BandWidth) % 2 = 0 THEN "1.0" ELSE "3.0"
      [] pat = "half" -> IF i % 2 = 1 THEN "3.0" ELSE "x"
      [] pat = "junk" -> "x"

\* the tokens of a record: routine code, timestamp, 22 metadata tokens of
\* which the one at 1-based field position bad (0: none) is unparseable,
\* then npix pixel tokens
RecordTokens(code, ts, bad, npix, pat) ==
    << code, ts >>
    \o [j \in 1..Len(GoodMeta) |-> IF j + 2 = bad THEN "x" ELSE GoodMeta[j]]
    \o [i \in 1..npix |-> PixelToken(pat, i)]

PixelCounts == {BandWidth * k : k \in 1..MaxBandsIn} \cup {BandWidth \div 2}

MarkerLines ==
    { Dashes(MarkerLen), Dashes(MarkerLen - 1), Dashes(MarkerLen) \o <<"x">> }

SkippedLines == { <<"#", "c">>, <<" ", "#", "c">>, <<>>, <<" ", "\t">> }

RecordLines ==
    { JoinBlank(SubSeq(RecordTokens("ABC", "2021-01-01T00:00:00", 0, 0, "junk"),
                       1, 10)),
      JoinBlank(RecordTokens("ABC", "2021-01-01T00:02:00", 0, 0, "junk")),
      JoinBlank(RecordTokens("XYZ", "2021-13-45T00:00:00", 0, 0, "junk")),
      <<" ">> \o JoinBlank(RecordTokens("ABC", "2021-01-01T00:01:00", 5, 0,
                                        "junk")) \o <<" ", " ">> }
    \cup { JoinBlank(RecordTokens("XYZ", "2021-01-01T00:00:00", 0, np, "steps")) :
             np \in PixelCounts }
    \cup { JoinBlank(RecordTokens("XYZ", "2021-01-01T00:00:00", 0, BandWidth, pat)) :
             pat \in {"half", "junk"} }

InputLines == MarkerLines \cup SkippedLines \cup RecordLines

\* the end-to-end example: a rule of 90 dashes, a comment, a blank line and
\* one record with 200 pixels of 1.0 and 200 pixels of 3.0
ExampleText ==
    JoinNL(<< Dashes(90), <<"#", " ", "c">>, <<>>,
              JoinBlank(RecordTokens("ABC", "2021-01-01T00:00:00", 0,
                                     2 * BandWidth, "steps")) >>)

Files == UNION { [1..n -> InputLines] : n \in 1..MaxLines }

Str(chars) == [type |-> "str", chars |-> chars]

ParseInputs == { Str(JoinNL(f)) : f \in Files } \cup { Str(ExampleText) }

\* ------------------------------------------------------------------- state
VARIABLES
    uploaded_df,    \* the module global of line 420
    call,           \* the arguments and locals of the last load_and_visualize
    result,         \* what that invocation returned
    txt,            \* the argument of a process_txt_file run on its own
    ppc,            \* "call" before that run, "return" after it
    data_start,     \* its local data_start
    data,           \* its local data
    df,             \* the frame it returned
    threads         \* the load_and_visualize invocations run side by side

vars == << uploaded_df, call, result, txt, ppc, data_start, data, df, threads >>

PyNone == [type |-> "NoneType"]

NoCall == [file_url |-> <<>>, selected_routine_code |-> <<>>,
           selected_column |-> "", fetched |-> PyNone,
           file_content |-> PyNone]

NoResult == [routine_code_options |-> <<>>, column_options |-> <<>>,
             status |-> <<>>, fig |-> PyNone]

handler_vars == << uploaded_df, call, result >>

parse_vars == << txt, ppc, data_start, data, df >>

\* the invocations that the threaded server may run at the same time
Threads == { "t1", "t2" }

\* an invocation that has not started: its arguments and its locals
Idle(file_url, selected_routine_code, selected_column) ==
    [pc |-> "start", file_url |-> file_url,
     selected_routine_code |-> selected_routine_code,
     selected_column |-> selected_column,
     parsed |-> PyNone, routine_code_options |-> <<>>,
     column_options |-> <<>>, result |-> NoResult]

NoThreads == [t \in Threads |-> Idle(<<>>, <<>>, "")]

\* ---------------------------------------------- process_txt_file on its own
ParseInit ==
    /\ uploaded_df = PyNone
    /\ call = NoCall
    /\ result = NoResult
    /\ txt \in ParseInputs
    /\ ppc = "call"
    /\ data_start = 0
    /\ data = <<>>
    /\ df = PyNone
    /\ threads = NoThreads

ProcessTxtFile ==
    /\ ppc = "call"
    /\ ppc' = "return"
    /\ LET lines == split_newline(txt.chars)
       IN  /\ data_start' = find_data_start(lines)
           /\ data' = extract_data(lines, find_data_start(lines))
    /\ df' = process_txt_file(txt)
    /\ UNCHANGED << txt, handler_vars, threads >>

ParseNext == ProcessTxtFile

ParseSpec == ParseInit /\ [][ParseNext]_vars

\* ------------------------------------------------------ load_and_visualize
\* A bytes object is what it encodes: chars as they are ("raw"), a complete
\* bz2 stream of chars ("bz2"), or a bz2 stream cut short ("trunc").
Bytes(enc, chars) == [type |-> "bytes", enc |-> enc, chars |-> chars]

\* truth value of None, bytes and str: a bz2 stream is never zero bytes long
truthy(obj) ==
    /\ obj.type # "NoneType"
    /\ \/ obj.type = "bytes" /\ obj.enc # "raw"
       \/ Len(obj.chars) > 0

\* bytes.decode("utf-8", errors="replace")
decode_replace(chars) ==
    [i \in 1..Len(chars) |-> IF chars[i] = "\\xff" THEN "\\ufffd" ELSE chars[i]]

\* decompress_bz2_file: bz2.decompress raises on anything but a complete
\* stream, and the handler of lines 453-455 returns ""
decompress_bz2_file(file_content) ==
    IF file_content.enc = "bz2"
    THEN Str(decode_replace(file_content.chars))
    ELSE Str(<<>>)

\* file_url.endswith(".bz2")
endswith_bz2(file_url) == Len(file_url) > 0 /\ Last(file_url) = ".bz2"

\* Series.unique(): the values in order of first appearance
RECURSIVE unique(_)
unique(values) ==
    IF Len(values) = 0 THEN <<>>
    ELSE LET init == unique(Front(values))
         IN  IF \E k \in 1..Len(init) : init[k] = Last(values)
             THEN init
             ELSE Append(init, Last(values))

column_of(rows, col) == [r \in 1..Len(rows) |-> rows[r][col]]

\* px.line(frame, x="Timestamp", y=col): the two columns as they stand
px_line(rows, col) ==
    [title |-> << col, " Over Time" >>,
     x |-> column_of(rows, "Timestamp"),
     y |-> column_of(rows, col)]

px_line_empty(title) == [title |-> << title >>, x |-> <<>>, y |-> <<>>]

Failure ==
    [routine_code_options |-> <<>>, column_options |-> <<>>,
     status |-> << "File failed to load" >>,
     fig |-> px_line_empty("No Data Available")]

\* lines 619-629
Success(frame, file_url, selected_routine_code, selected_column) ==
    LET filtered ==
            IF Len(selected_routine_code) > 0
            THEN SelectSeq(frame.rows,
                     LAMBDA row : row["Routine Code"] = selected_routine_code)
            ELSE frame.rows
    IN  [routine_code_options |-> unique(column_of(frame.rows, "Routine Code")),
         column_options |->
             SelectSeq(frame.columns, LAMBDA c : c # "Routine Code"),
         status |-> << "File loaded successfully: " >> \o file_url,
         fig |-> IF selected_column # ""
                 THEN px_line(filtered, selected_column)
                 ELSE px_line_empty("No Column Selected")]

\* the file_content of line 609-613, given what fetch_file returned
content_of(file_url, fetched) ==
    IF ~truthy(fetched) THEN fetched
    ELSE IF endswith_bz2(file_url) THEN decompress_bz2_file(fetched)
         ELSE fetched

\* the whole callback; fetched is what fetch_file returns for file_url
LoadAndVisualize(file_url, selected_routine_code, selected_column, fetched) ==
    LET got == IF Len(file_url) > 0 THEN fetched ELSE PyNone
        file_content == content_of(file_url, got)
        parsed == process_txt_file(file_content)
    IN  /\ call' = [file_url |-> file_url,
                    selected_routine_code |-> selected_routine_code,
                    selected_column |-> selected_column,
                    fetched |-> got,
                    file_content |-> file_content]
        /\ IF truthy(file_content)
           THEN /\ uploaded_df' = parsed
                /\ result' = IF ~df_empty(parsed)
                             THEN Success(parsed, file_url,
                                          selected_routine_code, selected_column)
                             ELSE Failure
           ELSE /\ uploaded_df' = uploaded_df
                /\ result' = Failure
        /\ UNCHANGED << parse_vars, threads >>

\* ------------------------------------------------- inputs of the callback
ArchiveRecords ==
    << JoinBlank(RecordTokens("ABC", "2021-01-01T00:02:00", 0, 0, "junk")),
       JoinBlank(RecordTokens("XYZ", "2021-01-01T00:00:00", 5, 0, "junk")),
       JoinBlank(RecordTokens("ABC", "2021-13-45T00:00:00", 0, 0, "junk")),
       JoinBlank(RecordTokens("ABC", "2021-01-01T00:01:00", 0, 0, "junk")) >>

\* the rule, then the first k records
ArchiveText(k) ==
    JoinNL(<< Dashes(MarkerLen) >>
           \o [i \in 1..k |-> ArchiveRecords[((i - 1) % Len(ArchiveRecords)) + 1]])

\* a header line with a byte that is not UTF-8 in front of a file
WithHeader(chars) == <<"#", "\\xff", "\n">> \o chars

ArchiveTexts ==
    { <<>>, WithHeader(ArchiveText(2)) }
    \cup { ArchiveText(k) : k \in 0..MaxRecords }

FetchResults ==
    { PyNone } \cup
    { Bytes(enc, chars) : enc \in {"raw", "bz2", "trunc"}, chars \in ArchiveTexts }

FileUrls == { <<>>, <<"L0/a", ".txt">>, <<"L0/b", ".txt", ".bz2">> }

RoutineCodeChoices == { <<>>, <<"ABC">>, <<"XYZ">> }

ColumnChoices == { "", "Duration" }

Init ==
    /\ uploaded_df = PyNone
    /\ call = NoCall
    /\ result = NoResult
    /\ txt = Str(<<>>)
    /\ ppc = "idle"
    /\ data_start = 0
    /\ data = <<>>
    /\ df = PyNone
    /\ threads = NoThreads

Next ==
    \E file_url \in FileUrls, code \in RoutineCodeChoices,
       col \in ColumnChoices, fetched \in FetchResults :
        LoadAndVisualize(file_url, code, col, fetched)

Spec == Init /\ [][Next]_vars

\* ----------------------------------- load_and_visualize, statement by statement
\* Two invocations for different files run in threads of the server; each
\* step below is one access to the global uploaded_df together with the
\* local work around it.

\* the callback ended in an exception: no output is returned
Raised ==
    [routine_code_options |-> <<>>, column_options |-> <<>>,
     status |-> << "Callback error" >>, fig |-> px_line_empty("")]

\* lines 622-628 on the frame that uploaded_df.copy() returned
figure_of(frame, selected_routine_code, selected_column) ==
    LET filtered ==
            IF Len(selected_routine_code) > 0
            THEN SelectSeq(frame.rows,
                     LAMBDA row : row["Routine Code"] = selected_routine_code)
            ELSE frame.rows
    IN  IF selected_column # ""
        THEN px_line(filtered, selected_column)
        ELSE px_line_empty("No Column Selected")

\* lines 609-617: fetch, decompress, parse and publish the frame
T_Load(t, fetched) ==
    LET me == threads[t]
        got == IF Len(me.file_url) > 0 THEN fetched ELSE PyNone
        file_content == content_of(me.file_url, got)
        parsed == process_txt_file(file_content)
    IN  /\ me.pc = "start"
        /\ IF truthy(file_content)
           THEN /\ uploaded_df' = parsed
                /\ threads' = [threads EXCEPT ![t].pc = "l618",
                                              ![t].parsed = parsed]
           ELSE /\ uploaded_df' = uploaded_df
                /\ threads' = [threads EXCEPT ![t].pc = "done",
                                              ![t].result = Failure]
        /\ UNCHANGED << call, result, parse_vars >>

\* line 618: if not uploaded_df.empty
T_CheckEmpty(t) ==
    /\ threads[t].pc = "l618"
    /\ threads' = IF df_empty(uploaded_df)
                  THEN [threads EXCEPT ![t].pc = "done", ![t].result = Failure]
                  ELSE [threads EXCEPT ![t].pc = "l619"]
    /\ UNCHANGED << handler_vars, parse_vars >>

\* lines 619-620: uploaded_df["Routine Code"] raises KeyError on pd.DataFrame()
T_RoutineCodes(t) ==
    /\ threads[t].pc = "l619"
    /\ threads' = IF Len(uploaded_df.columns) = 0
                  THEN [threads EXCEPT ![t].pc = "done", ![t].result = Raised]
                  ELSE [threads EXCEPT
                           ![t].pc = "l621",
                           ![t].routine_code_options =
                               unique(column_of(uploaded_df.rows, "Routine Code"))]
    /\ UNCHANGED << handler_vars, parse_vars >>

\* line 621
T_Columns(t) ==
    /\ threads[t].pc = "l621"
    /\ threads' = [threads EXCEPT
                      ![t].pc = "l622",
                      ![t].column_options =
                          SelectSeq(uploaded_df.columns,
                                    LAMBDA c : c # "Routine Code")]
    /\ UNCHANGED << handler_vars, parse_vars >>

\* lines 622-629: copy the frame, filter it, draw it and return; filtering or
\* drawing a frame without columns raises
T_Return(t) ==
    LET me == threads[t]
    IN  /\ me.pc = "l622"
        /\ threads' =
              IF /\ Len(uploaded_df.columns) = 0
                 /\ Len(me.selected_routine_code) > 0 \/ me.selected_column # ""
              THEN [threads EXCEPT ![t].pc = "done", ![t].result = Raised]
              ELSE [threads EXCEPT
                       ![t].pc = "done",
                       ![t].result =
                           [routine_code_options |-> me.routine_code_options,
                            column_options |-> me.column_options,
                            status |-> << "File loaded successfully: " >>
                                       \o me.file_url,
                            fig |-> figure_of(uploaded_df,
                                              me.selected_routine_code,
                                              me.selected_column)]]
        /\ UNCHANGED << handler_vars, parse_vars >>

ThreadUrls == [t \in Threads |->
                 IF t = "t1" THEN <<"L0/b", ".txt", ".bz2">>
                             ELSE <<"L0/c", ".txt", ".bz2">>]

ThreadFetchResults ==
    { PyNone } \cup { Bytes("bz2", ArchiveText(k)) : k \in 0..MaxRecords }

ThreadInit ==
    /\ uploaded_df = PyNone
    /\ call = NoCall
    /\ result = NoResult
    /\ txt = Str(<<>>)
    /\ ppc = "idle"
    /\ data_start = 0
    /\ data = <<>>
    /\ df = PyNone
    /\ \E code \in [Threads -> RoutineCodeChoices],
          col \in [Threads -> ColumnChoices] :
          threads = [t \in Threads |-> Idle(ThreadUrls[t], code[t], col[t])]

ThreadNext ==
    \E t \in Threads :
        \/ \E fetched \in ThreadFetchResults : T_Load(t, fetched)
        \/ T_CheckEmpty(t)
        \/ T_RoutineCodes(t)
        \/ T_Columns(t)
        \/ T_Return(t)

ThreadSpec == ThreadInit /\ [][ThreadNext]_vars

\* ------------------------------------------- properties of process_txt_file
Returned == ppc = "return"

TxtLines == split_newline(txt.chars)

BodyLines == SubSeq(TxtLines, data_start + 1, Len(TxtLines))

PixelColumnsOf(frame) ==
    { k \in 1..Len(frame.columns) :
        \A j \in 1..NumBase : frame.columns[k] # base_columns[j] }

\* a line that is nothing but dashes, at least MarkerLen of them
IsWholeMarker(line) ==
    /\ Len(line) >= MarkerLen
    /\ \A i \in 1..Len(line) : line[i] = "-"

WholeMarkers == { i \in 1..Len(TxtLines) : IsWholeMarker(TxtLines[i]) }

\* C7: the data body starts right after the first line that consists only
\* of at least 87 dashes (a line that merely begins with such a run is not a
\* marker), and at index 0 when there is no such line.
C7_BodyStartsAfterWholeMarker ==
    Returned =>
        data_start = IF WholeMarkers = {} THEN 0
                     ELSE CHOOSE i \in WholeMarkers :
                              \A k \in WholeMarkers : i <= k

FirstNonBlank(line) ==
    line[CHOOSE i \in 1..Len(line) :
             /\ ~IsSpace(line[i])
             /\ \A k \in 1..(i - 1) : IsSpace(line[k])]

IsRecordLine(line) == strip_nonempty(line) /\ FirstNonBlank(line) # "#"

RecordLinesOfBody == SelectSeq(BodyLines, IsRecordLine)

\* C8: a line of the data body yields a record exactly when it is not blank
\* and its first non-blank character is not '#'; each such line is split on
\* runs of whitespace.
C8_RecordIffNotBlankNotComment ==
    Returned =>
        data = [k \in 1..Len(RecordLinesOfBody) |-> split(RecordLinesOfBody[k])]

LongRecords == { r \in 1..Len(data) : Len(data[r]) >= NumBase }

\* C2: when some record has at least 24 tokens, the load succeeds and the
\* Dataset holds exactly the records with at least 24 tokens: every shorter
\* record is absent from it.
C2_ShortRecordsDropped ==
    (Returned /\ LongRecords # {}) =>
        /\ ~df_empty(df)
        /\ Len(df.rows) = Cardinality(LongRecords)

\* the records all carry the same number p of pixel tokens
UniformPixels(p) ==
    /\ Len(data) > 0
    /\ \A r \in 1..Len(data) : Len(data[r]) = NumBase + p

TenPixelColumns ==
    << "Pixel 1-200", "Pixel 201-400", "Pixel 401-600", "Pixel 601-800",
       "Pixel 801-1000", "Pixel 1001-1200", "Pixel 1201-1400",
       "Pixel 1401-1600", "Pixel 1601-1800", "Pixel 1801-2000" >>

\* 200 tokens 1.0 followed by 200 tokens 3.0, and nothing after them
IsStepRecord(rec) ==
    /\ Len(rec) = 24 + 400
    /\ \A i \in 25..224 : rec[i] = <<"1.0">>
    /\ \A i \in 225..424 : rec[i] = <<"3.0">>

ParsesAsNumber(tok) == Len(tok) = 1 /\ tok[1] \in DOMAIN NumericLiterals

ParsesAsTime(tok) == Len(tok) = 1 /\ tok[1] \in DOMAIN DatetimeLiterals

\* the bands (0-based) whose 200 token positions all exist in the record
FullBands(rec) == { i \in 0..9 : Len(rec) >= 24 + 200 * (i + 1) }

BandPositions(i) == (25 + 200 * i)..(24 + 200 * (i + 1))

NumericPositions(rec, i) ==
    { p \in BandPositions(i) : ParsesAsNumber(rec[p]) }

Tenths(lit) == (NumericLiterals[lit].n * 10) \div NumericLiterals[lit].d

\* ten times the sum of the tokens of rec at the positions S, literal by
\* literal
RECURSIVE SumTenths(_, _, _)
SumTenths(rec, S, lits) ==
    IF lits = {} THEN 0
    ELSE LET lit == CHOOSE x \in lits : TRUE
         IN  Tenths(lit) * Cardinality({ p \in S : rec[p] = <<lit>> })
             + SumTenths(rec, S, lits \ {lit})

\* C6: for a band whose 200 positions are all present in the record, the
\* aggregate is the mean of exactly the tokens of the band that parse as
\* numbers, and the missing marker when none of them parses.
C6_BandMeanOfNumericTokens ==
    Returned =>
        \A r \in 1..Len(data) : \A i \in FullBands(data[r]) :
            LET v == df.rows[r][TenPixelColumns[i + 1]]
                S == NumericPositions(data[r], i)
            IN  IF S = {} THEN v.nan
                ELSE /\ ~v.nan
                     /\ v.n * 10 * Cardinality(S)
                            = SumTenths(data[r], S, DOMAIN NumericLiterals) * v.d

C6_Witness ==
    /\ Returned
    /\ \E r \in 1..Len(data) : \E i \in FullBands(data[r]) :
          /\ NumericPositions(data[r], i) # {}
          /\ NumericPositions(data[r], i) # BandPositions(i)
          /\ ~df.rows[r][TenPixelColumns[i + 1]].nan
    /\ \E r \in 1..Len(data) : \E i \in FullBands(data[r]) :
          /\ NumericPositions(data[r], i) = {}
          /\ df.rows[r][TenPixelColumns[i + 1]].nan

\* C9: a record with at least 24 tokens stays in the Dataset at its place;
\* an unparseable Timestamp or numeric metadata field is the missing marker
\* in that field only, every other field has its parsed value, and the load
\* does not fail.
C9_BadFieldIsMissingOnly ==
    Returned =>
        \A r \in LongRecords :
            /\ ~df_empty(df)
            /\ Len(df.rows) = Len(data)
            /\ df.rows[r]["Routine Code"] = data[r][1]
            /\ IF ParsesAsTime(data[r][2])
               THEN df.rows[r]["Timestamp"] = DatetimeLiterals[data[r][2][1]]
               ELSE df.rows[r]["Timestamp"].nan
            /\ \A j \in 3..24 :
                  IF ParsesAsNumber(data[r][j])
                  THEN df.rows[r][base_columns[j]] = NumericLiterals[data[r][j][1]]
                  ELSE df.rows[r][base_columns[j]].nan

C9_Witness ==
    /\ Returned
    /\ \E r \in LongRecords :
          /\ ~ParsesAsTime(data[r][2])
          /\ df.rows[r]["Timestamp"].nan
          /\ \A j \in 3..24 : ~df.rows[r][base_columns[j]].nan
    /\ \E r \in LongRecords :
          /\ ParsesAsTime(data[r][2])
          /\ ~df.rows[r]["Timestamp"].nan
          /\ \E j \in 3..24 :
                /\ ~ParsesAsNumber(data[r][j])
                /\ df.rows[r][base_columns[j]].nan
                /\ \A k \in (3..24) \ {j} : ~df.rows[r][base_columns[k]].nan

\* ----------------------------------------- properties of load_and_visualize
Failed(res) == res.status = << "File failed to load" >>

Succeeded(res) ==
    Len(res.status) > 0 /\ res.status[1] = "File loaded successfully: "

IsFrame(obj) == "rows" \in DOMAIN obj

HoldsDataset == IsFrame(uploaded_df) /\ ~df_empty(uploaded_df)

\* C1: a load that fails leaves the current Dataset as it was before the
\* load (stated for the case that matters, a Dataset loaded earlier).
C1_FailedLoadKeepsDataset ==
    [][(HoldsDataset /\ Failed(result')) => uploaded_df' = uploaded_df]_vars

\* the fetched bytes are handed to bz2 and are not a complete bz2 stream
CorruptBz2Load ==
    /\ endswith_bz2(call.file_url)
    /\ truthy(call.fetched)
    /\ call.fetched.enc # "bz2"

\* C3: decompressing a corrupt or truncated bz2 blob yields an outcome of
\* its own, never the empty string that a sound stream of an empty file
\* decompresses to.
C3_CorruptIsNotEmptyString ==
    CorruptBz2Load => call.file_content # Str(<<>>)

\* the fetched bytes are plain text: a rule line, then one record of at
\* least 24 tokens
PlainMarkerRecordLoad ==
    /\ Len(call.file_url) > 0
    /\ ~endswith_bz2(call.file_url)
    /\ truthy(call.fetched)
    /\ call.fetched.enc = "raw"
    /\ LET lines == split_newline(call.fetched.chars)
       IN  /\ Len(lines) = 2
           /\ IsWholeMarker(lines[1])
           /\ IsRecordLine(lines[2])
           /\ Len(split(lines[2])) >= 24

\* C4: a blob whose name does not end in '.bz2' is decoded to text before
\* it is scanned, so a plain blob made of a marker line and one record of at
\* least 24 tokens loads into a non-empty Dataset.
C4_PlainBlobLoads ==
    PlainMarkerRecordLoad =>
        /\ Succeeded(result)
        /\ IsFrame(uploaded_df)
        /\ ~df_empty(uploaded_df)

\* a <= b for two values that are not missing
Leq(a, b) == a.n * b.d <= b.n * a.d

\* the rows of the Dataset that the routine-code filter of the call keeps
MatchingRows ==
    { r \in 1..Len(uploaded_df.rows) :
        \/ Len(call.selected_routine_code) = 0
        \/ uploaded_df.rows[r]["Routine Code"] = call.selected_routine_code }

PlottableRows ==
    { r \in MatchingRows :
        /\ ~uploaded_df.rows[r]["Timestamp"].nan
        /\ ~uploaded_df.rows[r][call.selected_column].nan }

\* C10: the series handed to the chart is the (Timestamp, value) pairs of
\* the matching records, sorted by Timestamp ascending, without the pairs
\* whose Timestamp or value is missing.
C10_SeriesSortedWithoutMissing ==
    (Succeeded(result) /\ call.selected_column # "") =>
        LET x == result.fig.x
            y == result.fig.y
        IN  /\ Len(x) = Cardinality(PlottableRows)
            /\ \A i \in 1..Len(x) : ~x[i].nan /\ ~y[i].nan
            /\ \A i \in 1..Len(x) : \A j \in i..Len(x) : Leq(x[i], x[j])
            /\ \A r \in PlottableRows :
                  \E i \in 1..Len(x) :
                      /\ x[i] = uploaded_df.rows[r]["Timestamp"]
                      /\ y[i] = uploaded_df.rows[r][call.selected_column]

\* the positions of band i that exist in the record and hold a number
OwnNumericPositions(rec, i) ==
    { p \in BandPositions(i) : p <= Len(rec) /\ ParsesAsNumber(rec[p]) }

\* C11: the value of band i of a record depends only on the record's raw
\* tokens at the positions 24+200*i .. 24+200*i+199, never on an aggregate
\* computed before: it is the mean of the numbers among those tokens, and
\* the missing marker when the record has no token there.
C11_BandFromOwnTokensOnly ==
    (Returned /\ ~df_empty(df)) =>
        \A r \in 1..Len(data) : \A i \in 0..9 :
            LET v == df.rows[r][TenPixelColumns[i + 1]]
                S == OwnNumericPositions(data[r], i)
            IN  IF S = {} THEN v.nan
                ELSE /\ ~v.nan
                     /\ v.n * 10 * Cardinality(S)
                            = SumTenths(data[r], S, DOMAIN NumericLiterals) * v.d

\* the step is an invocation for the url of the successful load before it,
\* with another routine-code filter or another column
FilterChangeOnly ==
    /\ Succeeded(result)
    /\ call'.file_url = call.file_url
    /\ \/ call'.selected_routine_code # call.selected_routine_code
       \/ call'.selected_column # call.selected_column

\* C12: an invocation in which only the routine-code filter or the column
\* selection changed leaves the current Dataset unchanged, whatever the fetch
\* of the same url returns this time.
C12_FilterChangeKeepsDataset ==
    [][FilterChangeOnly => uploaded_df' = uploaded_df]_vars

\* what an invocation returns when it runs alone, from the frame it parsed
OwnResult(me) ==
    IF df_empty(me.parsed)
    THEN Failure
    ELSE Success(me.parsed, me.file_url, me.selected_routine_code,
                 me.selected_column)

\* C13: when two invocations for different files interleave, the options,
\* status and figure that each returns are those of the Dataset parsed from
\* its own file_url: success is never reported with another file's records,
\* and failure never for a file that parsed into a non-empty Dataset.
C13_EachInvocationSeesOwnDataset ==
    \A t \in Threads :
        (threads[t].pc = "done" /\ IsFrame(threads[t].parsed)) =>
            threads[t].result = OwnResult(threads[t])
====
